---- MODULE Spec2Model ----
(***************************************************************************)
(* RadTTSModel (nemo/collections/tts/models/radtts.py): the batch adapter, *)
(* the phase gates and loss assembly of training_step / validation_step,   *)
(* validation_epoch_end's metric emission, configure_optimizers, and the   *)
(* inference entry points generate_spectrogram / parse.                    *)
(*                                                                         *)
(* Tensors are sequences of integers (1-D) or integers (scalars); an       *)
(* optional Python value is a sequence of length 0 (None) or 1.            *)
(***************************************************************************)
EXTENDS Integers, Sequences, FiniteSets, TLC

VARIABLES
    train_config,      \* cfg.trainerConfig: thresholds, loss weights, finetune_layers
    global_step,       \* self.global_step
    step_kind,         \* which step hook ran last: "none" | "train" | "val"
    at_step,           \* self.global_step as read by that step
    binarize,          \* local `binarize` of that step
    kl_active,         \* that step took the attention_kl_loss branch
    binarization_loss, \* local `binarization_loss` (None until assigned)
    loss,              \* local `loss` (None until a positive-weight term is met)
    loss_outputs,      \* local `loss_outputs`, an insertion-ordered dict
    binarize_attention,\* the binarize_attention argument passed to self.model
    outcome,           \* how that step ended: "none" | "ok" | "TypeError"
    hook,              \* the hook the trainer invoked last
    logged,            \* the self.log calls made by that hook invocation
    val_outputs,       \* the validation_step results the trainer collected in this loop
    val_loop_open,     \* a validation loop is running (its epoch end not yet called)
    log_train_images,  \* self.log_train_images
    seenBinarize,      \* history: a step before the last one computed binarize = True
    seenKl,            \* history, per kind: a step before the last one added the KL loss
    seenBinNoKl,       \* history: some step had binarize = True without the KL loss
    batch_data,        \* argument of batch_dict
    batch_data_dict,   \* result of batch_dict (None until called)
    optim,             \* cfg.optim: name, lr, weight_decay
    optimizer,         \* result of configure_optimizers (None until returned)
    optim_outcome,     \* "none" | "returned" | "SystemExit" | "NameError"
    optim_log,         \* logging calls of configure_optimizers
    text_normalizer_call, \* self.text_normalizer_call (None when no normalizer is configured)
    training,          \* self.training (torch.nn.Module mode flag)
    infer_call,        \* last inference entry point called, with the mode it was called in
    infer_log,         \* logging.warning calls of that call
    infer_result       \* its return value

stepVars == <<train_config, global_step, step_kind, at_step, binarize, kl_active,
              binarization_loss, loss, loss_outputs, binarize_attention, outcome,
              hook, logged, val_outputs, val_loop_open, log_train_images,
              seenBinarize, seenKl, seenBinNoKl>>
batchVars == <<batch_data, batch_data_dict>>
optimVars == <<optim, optimizer, optim_outcome, optim_log>>
inferVars == <<text_normalizer_call, training, infer_call, infer_log, infer_result>>
vars == <<stepVars, batchVars, optimVars, inferVars>>

(***************************************************************************)
(* Bounds                                                                  *)
(***************************************************************************)
MaxIter == 1          \* thresholds range over -1 .. MaxIter
MaxStep == 2          \* global_step ranges over 0 .. MaxStep
MaxValBatches == 2    \* validation batches per validation loop
MaxBatch == 2         \* batch dimension of the tensors of a batch
MaxLayers == 2        \* length of finetune_layers

None == <<>>
Some(x) == <<x>>

(***************************************************************************)
(* Collaborators: RADTTSLoss, AttentionBinarizationLoss                    *)
(***************************************************************************)
LossNames == <<"loss_mel", "loss_dur">>
LossValues == {1, 3}
LossWeights == {-1, 0, 2}
KLValues == {1, 5}

\* train_config.loss_weights: one weight per loss term the criterion reports
WeightConfigs == UNION {[1..n -> LossWeights] : n \in 0..Len(LossNames)}

\* self.criterion(outputs, in_lens, out_lens): name -> (value, weight)
criterion(weights) ==
    {[i \in 1..Len(weights) |-> [k |-> LossNames[i], v |-> vs[i], w |-> weights[i], pair |-> TRUE]] :
        vs \in [1..Len(weights) -> LossValues]}

\* self.attention_kl_loss(outputs['attn'], outputs['attn_soft'])
attention_kl_loss == KLValues

(***************************************************************************)
(* Phase gates                                                             *)
(***************************************************************************)
\* variant: the threshold step itself is excluded
train_binarize_strict(cfg, gs) ==
    cfg.binarization_start_iter >= 0 /\ gs > cfg.binarization_start_iter

train_binarize(cfg, gs) ==
    cfg.binarization_start_iter >= 0 /\ gs >= cfg.binarization_start_iter

\* variant: binarization only at the threshold step
val_binarize_window(cfg, gs) ==
    cfg.binarization_start_iter >= 0 /\ gs = cfg.binarization_start_iter

val_binarize(cfg, gs) ==
    cfg.binarization_start_iter >= 0 /\ gs >= cfg.binarization_start_iter

train_kl_gate(b, cfg, gs) ==
    b /\ gs >= cfg.kl_loss_start_iter

\* variant: the KL gate ignores the binarize flag
val_kl_gate_unbinarized(b, cfg, gs) ==
    cfg.kl_loss_start_iter >= 0 /\ gs >= cfg.kl_loss_start_iter

val_kl_gate(b, cfg, gs) ==
    b /\ cfg.kl_loss_start_iter >= 0 /\ gs >= cfg.kl_loss_start_iter

(***************************************************************************)
(* Loss aggregation: the loop over loss_outputs.items()                    *)
(***************************************************************************)
\* variant: every non-zero weight counts
term_counts_nonzero(w) == w # 0

term_counts(w) == w > 0

RECURSIVE sum_terms(_, _)
sum_terms(items, acc) ==
    IF items = <<>> THEN acc
    ELSE LET e == Head(items)
             nxt == IF term_counts(e.w)
                    THEN (IF acc = None THEN Some(e.v * e.w) ELSE Some(acc[1] + e.v * e.w))
                    ELSE acc
         IN sum_terms(Tail(items), nxt)

weighted_loss(items) == sum_terms(items, None)

add_kl(total, bl) == total + bl

\* variant: only the weighted terms are logged
train_log_weighted(items) ==
    LET Weighted(e) == e.w > 0 /\ e.k # "binarization_loss"
    IN [i \in 1..Len(SelectSeq(items, Weighted)) |->
           <<"train/" \o SelectSeq(items, Weighted)[i].k, SelectSeq(items, Weighted)[i].v>>]

train_log(items) == [i \in 1..Len(items) |-> <<"train/" \o items[i].k, items[i].v>>]

(***************************************************************************)
(* training_step / validation_step                                         *)
(***************************************************************************)
History(kind) ==
    /\ seenBinarize' = (seenBinarize \/ (step_kind # "none" /\ binarize))
    /\ seenKl' = IF step_kind = "none" THEN seenKl
                 ELSE [seenKl EXCEPT ![step_kind] = @ \/ kl_active]

training_step(lo, klv) ==
    LET b == train_binarize(train_config, global_step)
        gate == train_kl_gate(b, train_config, global_step)
        total == weighted_loss(lo)
    IN /\ step_kind' = "train"
       /\ hook' = "training_step"
       /\ at_step' = global_step
       /\ binarize' = b
       /\ binarize_attention' = b
       /\ kl_active' = gate
       /\ History("train")
       /\ seenBinNoKl' = (seenBinNoKl \/ (b /\ ~gate))
       /\ IF total = None
          THEN \* `loss += ...` / torch.zeros_like(loss) on loss = None
               /\ outcome' = "TypeError"
               /\ loss' = None
               /\ binarization_loss' = IF gate THEN Some(klv) ELSE None
               /\ loss_outputs' = lo
               /\ logged' = <<>>
          ELSE LET bl == IF gate THEN klv ELSE 0
                   out == Append(lo, [k |-> "binarization_loss", v |-> bl, w |-> 1, pair |-> TRUE])
               IN /\ outcome' = "ok"
                  /\ loss' = IF gate THEN Some(add_kl(total[1], bl)) ELSE total
                  /\ binarization_loss' = Some(bl)
                  /\ loss_outputs' = out
                  /\ logged' = train_log(out)
       /\ UNCHANGED <<train_config, global_step, val_outputs, val_loop_open, log_train_images>>

TrainingStep ==
    /\ outcome # "TypeError"
    /\ ~val_loop_open
    /\ \E lo \in criterion(train_config.loss_weights), klv \in attention_kl_loss :
        training_step(lo, klv)
    /\ UNCHANGED <<batchVars, optimVars, inferVars>>

validation_step(lo, klv, outs) ==
    LET batch_idx == Len(outs)
        b == val_binarize(train_config, global_step)
        gate == val_kl_gate(b, train_config, global_step)
        total == weighted_loss(lo)
    IN /\ step_kind' = "val"
       /\ hook' = "validation_step"
       /\ logged' = <<>>
       /\ at_step' = global_step
       /\ binarize' = b
       /\ binarize_attention' = TRUE
       /\ kl_active' = gate
       /\ History("val")
       /\ seenBinNoKl' = (seenBinNoKl \/ (b /\ ~gate))
       /\ val_loop_open' = TRUE
       /\ IF total = None
          THEN /\ outcome' = "TypeError"
               /\ loss' = None
               /\ binarization_loss' = IF gate THEN Some(klv) ELSE None
               /\ loss_outputs' = lo
               /\ val_outputs' = outs
          ELSE LET bl == IF gate THEN klv ELSE 0
                   \* the bare tensor is stored, not a (value, weight) pair
                   out == Append(lo, [k |-> "binarization_loss", v |-> bl, w |-> 0, pair |-> FALSE])
               IN /\ outcome' = "ok"
                  /\ loss' = IF gate THEN Some(add_kl(total[1], bl)) ELSE total
                  /\ binarization_loss' = Some(bl)
                  /\ loss_outputs' = out
                  /\ val_outputs' = Append(outs, [loss_outputs |-> out,
                                                   attn |-> (batch_idx = 0),
                                                   attn_soft |-> (batch_idx = 0),
                                                   audiopaths |-> IF batch_idx = 0
                                                                  THEN Some("audio_1") ELSE None])
       /\ UNCHANGED <<train_config, global_step, log_train_images>>

ValidationStep ==
    /\ outcome # "TypeError"
    /\ Len(val_outputs) < MaxValBatches
    /\ \E lo \in criterion(train_config.loss_weights), klv \in attention_kl_loss :
         validation_step(lo, klv, val_outputs)
    /\ UNCHANGED <<batchVars, optimVars, inferVars>>

(***************************************************************************)
(* validation_epoch_end                                                    *)
(***************************************************************************)
val_logs_term(k) == k # "binarization_loss"

RECURSIVE val_log(_)
val_log(items) ==
    IF items = <<>> THEN <<>>
    ELSE LET e == Head(items)
         IN (IF val_logs_term(e.k) THEN <<(<<"val/" \o e.k, e.v>>)>> ELSE <<>>)
            \o val_log(Tail(items))

validation_epoch_end(outputs) ==
    /\ hook' = "validation_epoch_end"
    /\ logged' = val_log(outputs[1].loss_outputs)
    /\ log_train_images' = TRUE

ValidationEpochEnd ==
    /\ val_loop_open
    /\ val_outputs # <<>>
    /\ validation_epoch_end(val_outputs)
    \* the trainer ends the loop and drops the collected outputs
    /\ val_loop_open' = FALSE
    /\ val_outputs' = <<>>
    /\ UNCHANGED <<train_config, global_step, step_kind, at_step, binarize, kl_active,
                   binarization_loss, loss, loss_outputs, binarize_attention, outcome,
                   seenBinarize, seenKl, seenBinNoKl>>
    /\ UNCHANGED <<batchVars, optimVars, inferVars>>

\* the trainer advances the global step after an optimizer step
AdvanceGlobalStep ==
    /\ outcome # "TypeError"
    /\ ~val_loop_open
    /\ global_step < MaxStep
    /\ global_step' = global_step + 1
    /\ UNCHANGED <<train_config, step_kind, at_step, binarize, kl_active,
                   binarization_loss, loss, loss_outputs, binarize_attention, outcome,
                   hook, logged, val_outputs, val_loop_open, log_train_images,
                   seenBinarize, seenKl, seenBinNoKl>>
    /\ UNCHANGED <<batchVars, optimVars, inferVars>>

(***************************************************************************)
(* Initial values of the parts a specification does not exercise           *)
(***************************************************************************)
Thresholds == -1..MaxIter

IdleStep ==
    /\ train_config = [binarization_start_iter |-> 0, kl_loss_start_iter |-> 0,
                       loss_weights |-> <<2>>, finetune_layers |-> <<>>]
    /\ global_step = 0
    /\ step_kind = "none"
    /\ at_step = 0
    /\ binarize = FALSE
    /\ kl_active = FALSE
    /\ binarization_loss = None
    /\ loss = None
    /\ loss_outputs = <<>>
    /\ binarize_attention = FALSE
    /\ outcome = "none"
    /\ hook = "none"
    /\ logged = <<>>
    /\ val_outputs = <<>>
    /\ val_loop_open = FALSE
    /\ log_train_images = FALSE
    /\ seenBinarize = FALSE
    /\ seenKl = [k \in {"train", "val"} |-> FALSE]
    /\ seenBinNoKl = FALSE

IdleBatch ==
    /\ batch_data = <<>>
    /\ batch_data_dict = None

IdleOptim ==
    /\ optim = [name |-> "Adam", lr |-> 1, weight_decay |-> 0]
    /\ optimizer = None
    /\ optim_outcome = "none"
    /\ optim_log = <<>>

IdleInfer ==
    /\ text_normalizer_call = None
    /\ training = TRUE
    /\ infer_call = None
    /\ infer_log = <<>>
    /\ infer_result = None

(***************************************************************************)
(* Training / validation loop                                              *)
(***************************************************************************)
InitStep ==
    /\ train_config \in [binarization_start_iter : Thresholds,
                         kl_loss_start_iter : Thresholds,
                         loss_weights : WeightConfigs,
                         finetune_layers : {<<>>}]
    /\ global_step = 0
    /\ step_kind = "none"
    /\ at_step = 0
    /\ binarize = FALSE
    /\ kl_active = FALSE
    /\ binarization_loss = None
    /\ loss = None
    /\ loss_outputs = <<>>
    /\ binarize_attention = FALSE
    /\ outcome = "none"
    /\ hook = "none"
    /\ logged = <<>>
    /\ val_outputs = <<>>
    /\ val_loop_open = FALSE
    /\ log_train_images = FALSE
    /\ seenBinarize = FALSE
    /\ seenKl = [k \in {"train", "val"} |-> FALSE]
    /\ seenBinNoKl = FALSE
    /\ IdleBatch /\ IdleOptim /\ IdleInfer

NextStep == TrainingStep \/ ValidationStep \/ ValidationEpochEnd \/ AdvanceGlobalStep

SpecStep == InitStep /\ [][NextStep]_vars

(***************************************************************************)
(* batch_dict                                                              *)
(***************************************************************************)
zeros(n) == [j \in 1..n |-> 0]

\* torch.tensor([0] * batch_data[3].size(0)); positions are 1-based here
default_spk_id(bd) == zeros(Len(bd[4]))

\* variant: off-by-one length test
speaker_given_above(bd) == ~(Len(bd) <= 14)

speaker_given(bd) == ~(Len(bd) < 14)

batch_dict(bd) ==
    LET spk_id == IF speaker_given(bd) THEN bd[14] ELSE default_spk_id(bd)
    IN [audio |-> bd[1],
        audio_lens |-> bd[2],
        text |-> bd[3],
        text_lens |-> bd[4],
        log_mel |-> bd[5],
        log_mel_lens |-> bd[6],
        align_prior_matrix |-> bd[7],
        pitch |-> bd[8],
        pitch_lens |-> bd[9],
        voiced_mask |-> bd[10],
        p_voiced |-> bd[11],
        energy |-> bd[12],
        energy_lens |-> bd[13],
        speaker_id |-> spk_id]

BatchDict ==
    /\ batch_data_dict = None
    /\ batch_data_dict' = Some(batch_dict(batch_data))
    /\ UNCHANGED <<batch_data, stepVars, optimVars, inferVars>>

\* the batches the data loader's collate function yields
TextLens == UNION {[1..n -> 1..3] : n \in 1..MaxBatch}
SpeakerIds == UNION {[1..n -> 0..1] : n \in 1..MaxBatch}
FieldTensor(i, n) == [j \in 1..n |-> 10 * i + j]
Batch13(tl) == [i \in 1..13 |-> IF i = 4 THEN tl ELSE FieldTensor(i, Len(tl))]
Batches == {Batch13(tl) : tl \in TextLens}
           \cup {Append(Batch13(tl), spk) : tl \in TextLens, spk \in SpeakerIds}

InitBatch ==
    /\ batch_data \in Batches
    /\ batch_data_dict = None
    /\ IdleStep /\ IdleOptim /\ IdleInfer

NextBatch == BatchDict

SpecBatch == InitBatch /\ [][NextBatch]_vars

(***************************************************************************)
(* configure_optimizers                                                    *)
(***************************************************************************)
OptimNames == {"Adam", "RAdam", "SGD"}
LayerNames == {"attn", "dur"}
LayerLists == UNION {[1..n -> LayerNames] : n \in 0..MaxLayers}

\* `for name, param in model.named_parameters()`: no name `model` is bound
\* in the method or the module, so entering the branch raises NameError
finetune_branch_entered(layers) == Len(layers) # 0

configure_optimizers ==
    LET started == <<[level |-> "info", msg |-> "Initializing optimizer", name |-> optim.name]>>
    IN IF finetune_branch_entered(train_config.finetune_layers)
       THEN /\ optim_outcome' = "NameError"
            /\ optimizer' = None
            /\ optim_log' = started
       ELSE IF optim.name = "Adam"
       THEN /\ optim_outcome' = "returned"
            /\ optimizer' = Some([kind |-> "Adam", lr |-> optim.lr,
                                   weight_decay |-> optim.weight_decay])
            /\ optim_log' = started
       ELSE IF optim.name = "RAdam"
       THEN /\ optim_outcome' = "returned"
            /\ optimizer' = Some([kind |-> "RAdam", lr |-> optim.lr,
                                   weight_decay |-> optim.weight_decay])
            /\ optim_log' = started
       ELSE /\ optim_outcome' = "SystemExit"
            /\ optimizer' = None
            /\ optim_log' = Append(started, [level |-> "info", msg |-> "Unrecognized optimizer",
                                             name |-> optim.name])

ConfigureOptimizers ==
    /\ optim_outcome = "none"
    /\ configure_optimizers
    /\ UNCHANGED <<optim, stepVars, batchVars, inferVars>>

InitOptim ==
    /\ optim \in [name : OptimNames, lr : {1, 2}, weight_decay : {0, 1}]
    /\ optimizer = None
    /\ optim_outcome = "none"
    /\ optim_log = <<>>
    /\ train_config \in [binarization_start_iter : {0}, kl_loss_start_iter : {0},
                         loss_weights : {<<2>>}, finetune_layers : LayerLists]
    /\ global_step = 0
    /\ step_kind = "none"
    /\ at_step = 0
    /\ binarize = FALSE
    /\ kl_active = FALSE
    /\ binarization_loss = None
    /\ loss = None
    /\ loss_outputs = <<>>
    /\ binarize_attention = FALSE
    /\ outcome = "none"
    /\ hook = "none"
    /\ logged = <<>>
    /\ val_outputs = <<>>
    /\ val_loop_open = FALSE
    /\ log_train_images = FALSE
    /\ seenBinarize = FALSE
    /\ seenKl = [k \in {"train", "val"} |-> FALSE]
    /\ seenBinNoKl = FALSE
    /\ IdleBatch /\ IdleInfer

NextOptim == ConfigureOptimizers

SpecOptim == InitOptim /\ [][NextOptim]_vars

(***************************************************************************)
(* generate_spectrogram / parse                                            *)
(***************************************************************************)
Chars == {"a", "B"}
Texts == UNION {[1..n -> Chars] : n \in 1..2}
TokenSeqs == UNION {[1..n -> 1..2] : n \in 1..2}
WARN_GENERATE == "generate_spectrogram() is meant to be called in eval mode."
WARN_PARSE == "parse() is meant to be called in eval mode."

\* collaborators: the normalizer, the tokenizer and the network's infer()
normalize_text(text) == [i \in 1..Len(text) |-> IF text[i] = "B" THEN "b" ELSE text[i]]
tokenizer(text) == [i \in 1..Len(text) |-> CASE text[i] = "a" -> 1
                                              [] text[i] = "b" -> 2
                                              [] OTHER -> 3]
model_infer(speaker, tokens, sigma) == [mel |-> <<speaker, tokens, sigma>>]

\* `self.eval()` on entry
generate_spectrogram_mode(mode) == FALSE

generate_spectrogram(tokens, speaker, sigma) ==
    LET mode == generate_spectrogram_mode(training)
    IN /\ training' = mode
       /\ infer_call' = Some([name |-> "generate_spectrogram", was_training |-> training])
       /\ infer_log' = IF mode THEN <<WARN_GENERATE>> ELSE <<>>
       /\ infer_result' = Some(model_infer(<<speaker>>, tokens, sigma).mel)

GenerateSpectrogram ==
    /\ \E tokens \in TokenSeqs, speaker \in 0..1, sigma \in {1, 2} :
         generate_spectrogram(tokens, speaker, sigma)
    /\ UNCHANGED <<text_normalizer_call, stepVars, batchVars, optimVars>>

parse(text, normalize) ==
    LET t == IF normalize /\ text_normalizer_call # None THEN normalize_text(text) ELSE text
    IN /\ infer_call' = Some([name |-> "parse", was_training |-> training])
       /\ infer_log' = IF training THEN <<WARN_PARSE>> ELSE <<>>
       /\ infer_result' = Some(<<tokenizer(t)>>)
       /\ UNCHANGED training

Parse ==
    /\ \E text \in Texts, normalize \in BOOLEAN : parse(text, normalize)
    /\ UNCHANGED <<text_normalizer_call, stepVars, batchVars, optimVars>>

\* torch.nn.Module.train() / eval(), called by the trainer or the user
SetMode ==
    /\ \E m \in BOOLEAN : training' = m
    /\ UNCHANGED <<text_normalizer_call, infer_call, infer_log, infer_result,
                   stepVars, batchVars, optimVars>>

InitInfer ==
    /\ text_normalizer_call \in {None, Some("normalize")}
    /\ training \in BOOLEAN
    /\ infer_call = None
    /\ infer_log = <<>>
    /\ infer_result = None
    /\ IdleStep /\ IdleBatch /\ IdleOptim

NextInfer == GenerateSpectrogram \/ Parse \/ SetMode

SpecInfer == InitInfer /\ [][NextInfer]_vars

(***************************************************************************)
(* Properties                                                              *)
(***************************************************************************)
StepRan == step_kind # "none"
BinStart == train_config.binarization_start_iter
KlStart == train_config.kl_loss_start_iter
HasPositiveWeight == \E i \in DOMAIN train_config.loss_weights : train_config.loss_weights[i] > 0

\* the criterion's terms of the last step (loss_outputs without the appended auxiliary entry)
CriterionTerms == IF outcome = "ok" THEN SubSeq(loss_outputs, 1, Len(loss_outputs) - 1)
                  ELSE loss_outputs

RECURSIVE SumOver(_, _)
SumOver(items, idx) ==
    IF idx = {} THEN 0
    ELSE LET i == CHOOSE j \in idx : TRUE
         IN items[i].v * items[i].w + SumOver(items, idx \ {i})

PositiveSum(items) == SumOver(items, {i \in DOMAIN items : items[i].w > 0})

Range(f) == {f[i] : i \in DOMAIN f}

\* C1: in training_step and validation_step the binarize flag equals
\* (binarization_start_iter >= 0 AND global_step >= binarization_start_iter),
\* for the global step the step read.
C1_BinarizeContract ==
    StepRan => (binarize = (BinStart >= 0 /\ at_step >= BinStart))

C1_Witness ==
    /\ step_kind = "val" /\ seenBinarize = FALSE /\ binarize /\ BinStart = 1 /\ at_step = 1

\* C2: in both steps (that complete) the binarization-KL auxiliary loss is computed and
\* added exactly when
\* binarize AND kl_loss_start_iter >= 0 AND global_step >= kl_loss_start_iter;
\* a negative kl_loss_start_iter never activates it.
C2_KlGateContract ==
    (StepRan /\ outcome = "ok") => (kl_active = (binarize /\ KlStart >= 0 /\ at_step >= KlStart))

\* C3: with at least one positive-weight term, the step completes and its total equals
\* the sum of value*weight over exactly the terms with weight > 0, plus the auxiliary
\* binarization loss (weight 1) when the step's KL branch was taken, plus nothing otherwise.
C3_WeightedTotal ==
    (StepRan /\ HasPositiveWeight) =>
        /\ outcome = "ok"
        /\ loss = Some(PositiveSum(CriterionTerms)
                        + (IF kl_active THEN binarization_loss[1] ELSE 0))

C3_Witness ==
    /\ step_kind = "train" /\ outcome = "ok" /\ kl_active
    /\ \E i, j \in DOMAIN train_config.loss_weights :
          train_config.loss_weights[i] > 0 /\ train_config.loss_weights[j] < 0
    /\ loss = Some(2 * 3 + 5)

\* C4: batch_dict maps 13 or 14 input tensors to 14 named fields: fields 1-13 are the
\* inputs at their positions, speaker_id is the 14th input when present and otherwise an
\* all-zero vector as long as the batch dimension of text_lens (input position 4).
C4_BatchDict ==
    batch_data_dict # None =>
        LET d == batch_data_dict[1]
            names == <<"audio", "audio_lens", "text", "text_lens", "log_mel", "log_mel_lens",
                       "align_prior_matrix", "pitch", "pitch_lens", "voiced_mask", "p_voiced",
                       "energy", "energy_lens">>
        IN /\ DOMAIN d = Range(names) \cup {"speaker_id"}
           /\ \A i \in 1..13 : d[names[i]] = batch_data[i]
           /\ Len(batch_data) = 14 => d.speaker_id = batch_data[14]
           /\ Len(batch_data) = 13 =>
                 /\ Len(d.speaker_id) = Len(batch_data[4])
                 /\ \A j \in DOMAIN d.speaker_id : d.speaker_id[j] = 0

C4_Witness ==
    /\ batch_data_dict # None
    /\ Len(batch_data) = 13
    /\ batch_data_dict[1].speaker_id = <<0, 0>>

\* C5: configure_optimizers returns an Adam optimizer for "Adam", an RAdam optimizer for
\* "RAdam", and for any other name logs the error and terminates the process without
\* returning an optimizer, whatever finetune_layers contains.
C5_OptimizerSelection ==
    optim_outcome # "none" =>
        /\ optim.name = "Adam" =>
              optim_outcome = "returned" /\ optimizer # None /\ optimizer[1].kind = "Adam"
        /\ optim.name = "RAdam" =>
              optim_outcome = "returned" /\ optimizer # None /\ optimizer[1].kind = "RAdam"
        /\ optim.name \notin {"Adam", "RAdam"} =>
              /\ optim_outcome = "SystemExit"
              /\ optimizer = None
              /\ \E i \in DOMAIN optim_log : optim_log[i].msg = "Unrecognized optimizer"

\* C6: with global_step never decreasing and the thresholds fixed, the gates are
\* monotone: once a step computed binarize = True every later step does, and once a
\* step took the KL branch every later step of the same kind takes it.
C6_MonotoneGates ==
    StepRan =>
        /\ seenBinarize => binarize
        /\ seenKl[step_kind] => kl_active

C6_Witness ==
    /\ StepRan /\ seenBinarize /\ binarize /\ seenKl[step_kind] /\ kl_active
    /\ seenBinNoKl /\ at_step = MaxStep

\* C7: whenever a step's auxiliary binarization-KL loss is active, its binarize flag
\* is True; the converse fails (a step with binarize True and the loss inactive exists).
C7_KlImpliesBinarize ==
    (StepRan /\ kl_active) => binarize

C7_Witness ==
    /\ StepRan /\ kl_active /\ binarize /\ seenBinNoKl

EmittedUnder(prefix, e) == <<prefix \o e.k, e.v>> \in Range(logged')

TrainEmitsAll ==
    (hook' = "training_step" /\ outcome' = "ok") =>
        \A i \in DOMAIN loss_outputs' : <<"train/" \o loss_outputs'[i].k, loss_outputs'[i].v>> \in Range(logged')

EpochEndRuns == val_loop_open /\ ~val_loop_open'

\* C8 (as claimed): every term, weight <= 0 terms and the auxiliary binarization term
\* included, is emitted under "train/" by training_step and under "val/" by the
\* validation stage.
C8_AllTermsEmitted ==
    [][/\ TrainEmitsAll
       /\ EpochEndRuns =>
             \A i \in DOMAIN val_outputs[1].loss_outputs :
                 EmittedUnder("val/", val_outputs[1].loss_outputs[i])]_vars

\* C8 (amended): training_step emits every term, weight <= 0 terms and the auxiliary
\* binarization term included, under "train/"; validation_epoch_end emits under "val/"
\* every term of the first validation batch except the auxiliary binarization term,
\* which it does not emit.
C8_Amended ==
    [][/\ TrainEmitsAll
       /\ EpochEndRuns =>
             /\ \A i \in DOMAIN val_outputs[1].loss_outputs :
                   LET e == val_outputs[1].loss_outputs[i]
                   IN IF e.k = "binarization_loss"
                      THEN \A j \in DOMAIN logged' : logged'[j][1] # "val/binarization_loss"
                      ELSE EmittedUnder("val/", e)]_vars

C8_Witness ==
    /\ hook = "validation_epoch_end"
    /\ \E i \in DOMAIN train_config.loss_weights :
          /\ train_config.loss_weights[i] <= 0
          /\ \E j \in DOMAIN logged : logged[j][1] = "val/" \o LossNames[i]
    /\ kl_active /\ step_kind = "val"

\* C9: generate_spectrogram or parse invoked in training mode emits a warning and still
\* produces its result; invoked in evaluation mode it emits no warning.
C9_TrainingModeWarning ==
    infer_call # None =>
        /\ infer_result # None
        /\ infer_call[1].was_training => Len(infer_log) = 1
        /\ ~infer_call[1].was_training => infer_log = <<>>

\* C10: with no positive-weight term the step ends in a reported configuration error
\* before any use of the undefined total: nothing is added to it and no placeholder is
\* derived from it.
C10_UndefinedTotalGuarded ==
    (StepRan /\ ~HasPositiveWeight) =>
        /\ outcome = "ConfigurationError"
        /\ binarization_loss = None

====
